---- MODULE Spec2Model ----
(***************************************************************************)
(* State-machine model of yroom's room manager (src/src/roomsync.rs).      *)
(*                                                                         *)
(* YRoomManager keeps a registry of YRoom values.  A YRoom owns one        *)
(* y_sync Awareness (a yrs document plus the presence states and their     *)
(* clocks), the connection table conn_id -> set of presence client ids,    *)
(* and the settings resolved for it at creation.  Every public method runs *)
(* to completion, so every method is one action.                           *)
(*                                                                         *)
(* Representation                                                          *)
(*   Option<T>      <<>> is None, <<x>> is Some(x); Result likewise, with  *)
(*                  <<>> for Err.                                          *)
(*   HashMap<K,V>   a function from the bounded key universe to Option<V>. *)
(*   String         room names and prefixes are sequences of characters,   *)
(*                  so that starts_with is computed.                       *)
(*   document       the set of items it has integrated; a state vector is  *)
(*                  the set of items it covers.                            *)
(*   update blob    [enc, items]: the encoding it was written with and the *)
(*                  items it carries; enc "bad" is an undecodable blob.    *)
(*   byte buffer    [enc, prefix, msgs]: encoding, optional leading name,  *)
(*                  the messages in order; ZeroBytes is the empty buffer.  *)
(***************************************************************************)
EXTENDS Integers, Sequences, FiniteSets, TLC

VARIABLES
    rooms,             \* YRoomManager.rooms: room name -> Option<YRoom>
    default_settings,  \* YRoomManager.default_settings
    room_settings,     \* YRoomManager.room_settings: Vec<(prefix, settings)>
    call,              \* the method call that produced this state
    ret,               \* what that call returned
    client_ids,        \* disconnect's local client_ids: the entry it found
    snapshot,          \* the caller's copy of what serialize_room returned last
    invoked            \* the observer invocations the call made

vars == <<rooms, default_settings, room_settings, call, ret, client_ids, snapshot,
          invoked>>

(***************************************************************************)
(* Bounds                                                                  *)
(***************************************************************************)
MaxClock == 2      \* presence clocks carried by inbound diffs: 1..MaxClock
MaxItems == 1      \* document items: 1..MaxItems
MaxBatch == 2      \* messages per inbound buffer
MaxPrefixes == 2   \* configured room-name prefixes

None == <<>>
Some(x) == <<x>>

ConnIds == {1, 2}
ClientIds == {7}
Items == 1..MaxItems
Clocks == 1..MaxClock

NULL_STR == "null"
Jsons == {NULL_STR, "a"}

(***************************************************************************)
(* Settings                                                                *)
(***************************************************************************)
YRoomSettings(v, p, s) ==
    [protocol_version |-> v, name_prefix |-> p, server_start_sync |-> s]

YRoomSettings_default == YRoomSettings("V1", FALSE, TRUE)

AllSettings ==
    {YRoomSettings(v, p, s) : v \in {"V1", "V2"}, p \in BOOLEAN, s \in BOOLEAN}

\* The default settings the manager is constructed with: every pair of
\* values of two options occurs in one of them.
DefaultSettings ==
    {YRoomSettings_default, YRoomSettings("V2", TRUE, TRUE),
     YRoomSettings("V1", TRUE, FALSE), YRoomSettings("V2", FALSE, FALSE)}

starts_with(room, prefix) ==
    /\ Len(prefix) <= Len(room)
    /\ SubSeq(room, 1, Len(prefix)) = prefix

RECURSIVE find_settings_from(_, _, _, _)
find_settings_from(list, dflt, room, i) ==
    IF i > Len(list) THEN dflt
    ELSE IF starts_with(room, list[i][1]) THEN list[i][2]
    ELSE find_settings_from(list, dflt, room, i + 1)

\* Mutant: the longest matching prefix wins.
find_settings_longest(list, dflt, room) ==
    LET matching == {i \in 1..Len(list) : starts_with(room, list[i][1])}
    IN  IF matching = {} THEN dflt
        ELSE list[CHOOSE i \in matching :
                    \A j \in matching : Len(list[j][1]) <= Len(list[i][1])][2]

find_settings(list, dflt, room) == find_settings_from(list, dflt, room, 1)

(***************************************************************************)
(* Document engine (yrs)                                                   *)
(***************************************************************************)
Blob(enc, items) == [enc |-> enc, items |-> items]

state_vector(doc) == doc

encode_diff_v1(doc, sv) == Blob("V1", doc \ sv)
encode_diff_v2(doc, sv) == Blob("V2", doc \ sv)

Update_decode_v1(data) == IF data.enc = "V1" THEN Some(data.items) ELSE None
Update_decode_v2(data) == IF data.enc = "V2" THEN Some(data.items) ELSE None

txn_apply_update(doc, update) == doc \cup update

(***************************************************************************)
(* Presence store (y_sync Awareness)                                       *)
(***************************************************************************)
\* The client id of the room's own document: yrs draws it at random; the
\* remote clients of this model (ClientIds) have other ids.
DocClientId == 0

Awareness_default ==
    [doc |-> {},
     client_id |-> DocClientId,
     states |-> [k \in ClientIds |-> None],
     meta |-> [k \in ClientIds |-> None],
     on_update |-> FALSE,
     subs |-> {}]

clients(aw) == {k \in ClientIds : aw.states[k] # None}

\* Awareness::update(): the full presence diff, one entry per client in states.
Awareness_update(aw) ==
    IF \E k \in clients(aw) : aw.meta[k] = None THEN None
    ELSE Some([k \in ClientIds |->
                 IF aw.states[k] # None
                 THEN Some([clock |-> aw.meta[k][1], json |-> aw.states[k][1]])
                 ELSE None])

update_meta(meta, client_id) ==
    [meta EXCEPT ![client_id] =
        IF meta[client_id] # None THEN Some(meta[client_id][1] + 1) ELSE Some(1)]

\* Awareness::remove_state(client_id)
remove_state(aw, client_id) ==
    [aw EXCEPT !.states[client_id] = None,
               !.meta = update_meta(aw.meta, client_id)]

\* One entry of Awareness::apply_update: the new state and clock of the
\* client, and the list of the event the client id is pushed to.
apply_entry(aw, k, entry) ==
    LET is_null == entry.json = NULL_STR
        keep == [state |-> aw.states[k], meta |-> aw.meta[k], ev |-> "none"]
    IN  IF aw.meta[k] # None
        THEN LET prev == aw.meta[k][1]
                 is_removed == /\ prev = entry.clock
                               /\ is_null
                               /\ aw.states[k] # None
                 is_new == prev < entry.clock
             IN  IF is_new \/ is_removed
                 THEN IF is_null
                      THEN IF k = aw.client_id /\ aw.states[k] # None
                           \* a remote peer never removes the local state
                           THEN [state |-> aw.states[k],
                                 meta |-> Some(entry.clock + 1), ev |-> "none"]
                           ELSE [state |-> None, meta |-> Some(entry.clock),
                                 ev |-> IF aw.on_update THEN "removed" ELSE "none"]
                      ELSE [state |-> Some(entry.json), meta |-> Some(entry.clock),
                            ev |-> IF aw.on_update THEN "updated" ELSE "none"]
                 ELSE keep
        ELSE [state |-> Some(entry.json), meta |-> Some(entry.clock),
              ev |-> IF aw.on_update THEN "added" ELSE "none"]

\* Awareness::apply_update(update): the store afterwards and the event.
Awareness_apply_update(aw, update) ==
    LET res == [k \in ClientIds |->
                  IF update[k] # None
                  THEN apply_entry(aw, k, update[k][1])
                  ELSE [state |-> aw.states[k], meta |-> aw.meta[k], ev |-> "none"]]
    IN  [awareness |-> [aw EXCEPT !.states = [k \in ClientIds |-> res[k].state],
                                  !.meta = [k \in ClientIds |-> res[k].meta]],
         added |-> {k \in ClientIds : res[k].ev = "added"},
         updated |-> {k \in ClientIds : res[k].ev = "updated"},
         removed |-> {k \in ClientIds : res[k].ev = "removed"}]

\* Awareness::on_update(f): the event handler is created if need be and the
\* closure subscribed; closures are known by the conn_id they captured.
Awareness_on_update(aw, conn_id) ==
    [aw EXCEPT !.on_update = TRUE, !.subs = @ \cup {conn_id}]

\* Mutant: the subscription outlives the block.
drop_sub_leak(aw, conn_id) == aw

\* _sub goes out of scope: the closure is unsubscribed.
drop_sub(aw, conn_id) == [aw EXCEPT !.subs = @ \ {conn_id}]

\* One invocation of a subscribed closure: whether the caller holds the
\* connection-table lock the closure takes, and whether the closure finds
\* the entry it unwraps.
Invocation(conn_id, lock_held, has_entry) ==
    [conn_id |-> conn_id, lock_held |-> lock_held, has_entry |-> has_entry]

\* the closures Awareness::remove_state(client_id) invokes
remove_state_trigger(aw, client_id) ==
    IF aw.on_update /\ aw.states[client_id] # None THEN aw.subs ELSE {}

(***************************************************************************)
(* Protocol codec                                                          *)
(***************************************************************************)
ZeroBytes == [enc |-> "V1", prefix |-> None, msgs |-> <<>>]

SyncStep1(sv) == [kind |-> "SyncStep1", val |-> sv]
SyncStep2(data) == [kind |-> "SyncStep2", val |-> data]
Update(data) == [kind |-> "Update", val |-> data]
Auth(reason) == [kind |-> "Auth", val |-> reason]
AwarenessQuery == [kind |-> "AwarenessQuery", val |-> None]
Awareness(update) == [kind |-> "Awareness", val |-> update]
Custom(tag) == [kind |-> "Custom", val |-> tag]
\* a message the reader fails to decode
Malformed == [kind |-> "Err", val |-> None]

\* Mutant: messages are put in front.
push_front(messages, message) == <<message>> \o messages

\* EncoderWrapper::push
push(messages, message) == Append(messages, message)

\* Mutant: the header and the name are written also for an empty list.
EncoderWrapper_to_vec_header(protocol_version, messages, prefix) ==
    [enc |-> protocol_version, prefix |-> prefix, msgs |-> messages]

EncoderWrapper_to_vec(protocol_version, messages, prefix) ==
    IF protocol_version = "V1"
    THEN IF messages = <<>> THEN ZeroBytes
         ELSE [enc |-> "V1", prefix |-> prefix, msgs |-> messages]
    ELSE IF messages = <<>> THEN ZeroBytes
         ELSE [enc |-> "V2", prefix |-> prefix, msgs |-> messages]

\* Mutant: a buffer whose header or name cannot be read is decoded all the same.
DecoderWrapper_new_lenient(protocol_version, payload, name_prefix) ==
    Some([document_name |-> IF name_prefix THEN payload.prefix ELSE None,
          messages |-> payload.msgs])

\* DecoderWrapper::new: Err at the header or name-prefix stage, or the
\* decoder: the name read and the message results the iterator will yield.
DecoderWrapper_new(protocol_version, payload, name_prefix) ==
    IF protocol_version = "V1"
    THEN IF name_prefix /\ payload.prefix = None THEN None
         ELSE Some([document_name |-> IF name_prefix THEN payload.prefix ELSE None,
                    messages |-> payload.msgs])
    ELSE IF payload.enc # "V2" THEN None
         ELSE IF name_prefix /\ payload.prefix = None THEN None
         ELSE Some([document_name |-> IF name_prefix THEN payload.prefix ELSE None,
                    messages |-> payload.msgs])

(***************************************************************************)
(* YRoom                                                                   *)
(***************************************************************************)
YRoomMessage(payload, broadcast_payload) ==
    [payload |-> payload, broadcast_payload |-> broadcast_payload]

YRoom_new(settings, update_vec) ==
    LET update == IF update_vec # None THEN Update_decode_v1(update_vec[1]) ELSE None
    IN  [awareness |-> [Awareness_default EXCEPT
                           !.doc = IF update # None
                                   THEN txn_apply_update(@, update[1]) ELSE @],
         connections |-> [c \in ConnIds |-> None],
         settings |-> settings]

or_insert_empty(connections, conn_id) ==
    IF connections[conn_id] = None
    THEN [connections EXCEPT ![conn_id] = Some({})]
    ELSE connections

\* Mutant: the presence snapshot is sent even when there is no presence entry.
YRoom_connect_snapshot(room, conn_id) ==
    LET aw == room.awareness
        step1 == push(<<>>, SyncStep1(state_vector(aw.doc)))
        sync == IF room.settings.server_start_sync
                THEN IF Awareness_update(aw) # None
                     THEN push(step1, Awareness(Awareness_update(aw)[1]))
                     ELSE step1
                ELSE <<>>
    IN  [room |-> [room EXCEPT !.connections = or_insert_empty(@, conn_id)],
         ret |-> YRoomMessage(
                    EncoderWrapper_to_vec(room.settings.protocol_version, sync, None),
                    ZeroBytes)]

YRoom_connect(room, conn_id) ==
    LET aw == room.awareness
        step1 == push(<<>>, SyncStep1(state_vector(aw.doc)))
        sync == IF room.settings.server_start_sync
                THEN IF clients(aw) # {} /\ Awareness_update(aw) # None
                     THEN push(step1, Awareness(Awareness_update(aw)[1]))
                     ELSE step1
                ELSE <<>>
    IN  [room |-> [room EXCEPT !.connections = or_insert_empty(@, conn_id)],
         ret |-> YRoomMessage(
                    EncoderWrapper_to_vec(room.settings.protocol_version, sync, None),
                    ZeroBytes)]

\* Mutant: the observer also takes the updated client ids as owned.
on_update_observer_updated(connections, conn_id, ev) ==
    [connections EXCEPT
        ![conn_id] = Some((@[1] \cup ev.added \cup ev.updated) \ ev.removed)]

\* Mutant: the observer does not delete the removed client ids.
on_update_observer_keep(connections, conn_id, ev) ==
    [connections EXCEPT ![conn_id] = Some(@[1] \cup ev.added)]

\* The closure registered with on_update in the Awareness arm.
on_update_observer(connections, conn_id, ev) ==
    [connections EXCEPT ![conn_id] = Some((@[1] \cup ev.added) \ ev.removed)]

\* Mutant: the reply is the whole document, whatever the state vector.
handle_sync_step1_full(st, sv) ==
    LET doc == st.room.awareness.doc
        data == IF st.room.settings.protocol_version = "V1"
                THEN encode_diff_v1(doc, {})
                ELSE encode_diff_v2(doc, {})
    IN  [st EXCEPT !.sync_encoder = push(@, SyncStep2(data))]

\* The arms of the dispatch loop; st carries the room and both encoders.
handle_sync_step1(st, sv) ==
    LET doc == st.room.awareness.doc
        data == IF st.room.settings.protocol_version = "V1"
                THEN encode_diff_v1(doc, sv)
                ELSE encode_diff_v2(doc, sv)
    IN  [st EXCEPT !.sync_encoder = push(@, SyncStep2(data))]

handle_sync_step2(st, data) ==
    LET update == IF st.room.settings.protocol_version = "V1"
                  THEN Update_decode_v1(data)
                  ELSE Update_decode_v2(data)
    IN  IF update # None
        THEN [st EXCEPT !.room.awareness.doc = txn_apply_update(@, update[1])]
        ELSE st

handle_update(st, data) ==
    LET update == Update_decode_v1(data)
    IN  IF update # None
        THEN [st EXCEPT !.room.awareness.doc = txn_apply_update(@, update[1]),
                        !.update_encoder = push(@, Update(data))]
        ELSE st

\* Mutant: the grant is put in the broadcast payload.
handle_auth_broadcast(st) == [st EXCEPT !.update_encoder = push(@, Auth(None))]

handle_auth(st) == [st EXCEPT !.sync_encoder = push(@, Auth(None))]

handle_awareness_query(st) ==
    LET awareness_update == Awareness_update(st.room.awareness)
    IN  IF awareness_update # None
        THEN [st EXCEPT !.sync_encoder = push(@, Awareness(awareness_update[1]))]
        ELSE st

\* EventHandler::trigger during apply_update: every subscribed closure runs;
\* one that can take the lock and finds its entry updates it.
trigger(connections, subs, ev, lock_held) ==
    [connections |->
        [c \in ConnIds |->
            IF c \in subs /\ ~lock_held /\ connections[c] # None
            THEN on_update_observer(connections, c, ev)[c]
            ELSE connections[c]],
     invoked |-> {Invocation(c, lock_held, connections[c] # None) : c \in subs}]

handle_awareness(st, conn_id, awareness_update) ==
    LET \* the guard of lines 557-561 is a temporary: the lock is free again
        connections == or_insert_empty(st.room.connections, conn_id)
        subscribed == Awareness_on_update(st.room.awareness, conn_id)
        res == Awareness_apply_update(subscribed, awareness_update)
        \* the event is triggered only when one of its lists is non-empty
        observed == IF res.added # {} \/ res.updated # {} \/ res.removed # {}
                    THEN trigger(connections, res.awareness.subs, res, FALSE)
                    ELSE [connections |-> connections, invoked |-> {}]
        dropped == drop_sub(res.awareness, conn_id)
        after == Awareness_update(dropped)
    IN  [room |-> [st.room EXCEPT !.awareness = dropped,
                                  !.connections = observed.connections],
         sync_encoder |-> st.sync_encoder,
         update_encoder |-> IF after # None
                            THEN push(st.update_encoder, Awareness(after[1]))
                            ELSE st.update_encoder,
         invoked |-> st.invoked \cup observed.invoked]

dispatch(st, conn_id, message) ==
    CASE message.kind = "SyncStep1" -> handle_sync_step1(st, message.val)
      [] message.kind = "SyncStep2" -> handle_sync_step2(st, message.val)
      [] message.kind = "Update" -> handle_update(st, message.val)
      [] message.kind = "Auth" -> handle_auth(st)
      [] message.kind = "AwarenessQuery" -> handle_awareness_query(st)
      [] message.kind = "Awareness" -> handle_awareness(st, conn_id, message.val)
      [] message.kind = "Custom" -> st
      [] OTHER -> st      \* Err(err): logged

RECURSIVE for_each(_, _, _, _)
for_each(st, conn_id, messages, i) ==
    IF i > Len(messages) THEN st
    ELSE for_each(dispatch(st, conn_id, messages[i]), conn_id, messages, i + 1)

YRoom_handle_message(room, conn_id, payload) ==
    LET decoder == DecoderWrapper_new(room.settings.protocol_version, payload,
                                      room.settings.name_prefix)
    IN  IF decoder = None
        THEN [room |-> room, ret |-> YRoomMessage(ZeroBytes, ZeroBytes),
              invoked |-> {}]
        ELSE LET st == for_each([room |-> room, sync_encoder |-> <<>>,
                                 update_encoder |-> <<>>, invoked |-> {}],
                                conn_id, decoder[1].messages, 1)
                 version == room.settings.protocol_version
                 name == decoder[1].document_name
             IN  [room |-> st.room,
                  ret |-> YRoomMessage(
                             EncoderWrapper_to_vec(version, st.sync_encoder, name),
                             EncoderWrapper_to_vec(version, st.update_encoder, name)),
                  invoked |-> st.invoked]

RECURSIVE remove_states(_, _)
remove_states(aw, ids) ==
    IF ids = {} THEN aw
    ELSE LET k == CHOOSE x \in ids : TRUE
         IN  remove_states(remove_state(aw, k), ids \ {k})

\* Mutant: the table entry is removed, the presence states are not.
YRoom_disconnect_partial(room, conn_id) ==
    LET after == Awareness_update(room.awareness)
    IN  [room |-> [room EXCEPT !.connections[conn_id] = None],
         ret |-> EncoderWrapper_to_vec(room.settings.protocol_version,
                    IF after # None THEN push(<<>>, Awareness(after[1])) ELSE <<>>,
                    None),
         invoked |-> {}]

YRoom_disconnect(room, conn_id) ==
    LET aw == IF room.connections[conn_id] # None
              THEN remove_states(room.awareness, room.connections[conn_id][1])
              ELSE room.awareness
        \* remove_state runs inside the block that holds the lock (599-608)
        called == IF room.connections[conn_id] # None
                  THEN UNION {remove_state_trigger(room.awareness, k) :
                                 k \in room.connections[conn_id][1]}
                  ELSE {}
        after == Awareness_update(aw)
    IN  [room |-> [room EXCEPT !.awareness = aw,
                               !.connections[conn_id] = None],
         ret |-> EncoderWrapper_to_vec(room.settings.protocol_version,
                    IF after # None THEN push(<<>>, Awareness(after[1])) ELSE <<>>,
                    None),
         invoked |-> {Invocation(c, TRUE, room.connections[c] # None) : c \in called}]

YRoom_serialize(room) ==
    IF room.settings.protocol_version = "V1"
    THEN encode_diff_v1(room.awareness.doc, {})
    ELSE encode_diff_v2(room.awareness.doc, {})

\* Mutant: a room is alive as soon as it exists.
YRoom_is_alive_always(room) == TRUE

YRoom_is_alive(room) == \E c \in ConnIds : room.connections[c] # None

(***************************************************************************)
(* YRoomManager                                                            *)
(***************************************************************************)
\* Room names are strings; the registry is modelled over these.
RoomNames == {<<"d", "o", "c">>}
ManagerRoomNames == {<<"d", "o", "c">>, <<"x">>}

get_room_with_data(room, data) ==
    IF rooms[room] = None
    THEN [rooms EXCEPT ![room] =
             Some(YRoom_new(find_settings(room_settings, default_settings, room),
                            Some(data)))]
    ELSE rooms

\* Mutant: every reference builds the room anew.
get_room_always_new(room) ==
    [rooms EXCEPT ![room] =
        Some(YRoom_new(find_settings(room_settings, default_settings, room), None))]

get_room(room) ==
    IF rooms[room] = None
    THEN [rooms EXCEPT ![room] =
             Some(YRoom_new(find_settings(room_settings, default_settings, room),
                            None))]
    ELSE rooms

is_room_alive(room) ==
    IF rooms[room] # None THEN YRoom_is_alive(rooms[room][1]) ELSE FALSE

serialize_room(room) ==
    IF rooms[room] = None THEN None ELSE Some(YRoom_serialize(rooms[room][1]))

list_rooms == {r \in DOMAIN rooms : rooms[r] # None}

\* export_map, export_array, export_text and the export_xml_* methods: the
\* projection of the document, or the absent value
export(room) ==
    IF rooms[room] = None THEN None ELSE Some(rooms[room][1].awareness.doc)

Call(op, room, conn_id, data) ==
    [op |-> op, room |-> room, conn_id |-> conn_id, data |-> data]

(***************************************************************************)
(* Inputs                                                                  *)
(***************************************************************************)
Blobs ==
    {Blob(e, s) : e \in {"V1", "V2"}, s \in (SUBSET Items) \ {{}}}
        \cup {Blob("V1", {}), Blob("bad", {})}

AwarenessUpdates ==
    [ClientIds -> {None} \cup {Some([clock |-> c, json |-> j]) : c \in Clocks, j \in Jsons}]

Messages ==
    {SyncStep1(sv) : sv \in SUBSET Items}
        \cup {SyncStep2(b) : b \in Blobs \ {Blob("V1", {})}}
        \cup {Update(b) : b \in Blobs}
        \cup {Awareness(u) : u \in AwarenessUpdates}
        \cup {Auth(Some("denied")), AwarenessQuery, Custom(9), Malformed}

\* the messages that inbound buffers of more than one message are made of
BatchMessages ==
    {Update(Blob("V1", Items)), Update(Blob("V1", {})), Malformed,
     Awareness([k \in ClientIds |-> Some([clock |-> 1, json |-> "a"])])}

RECURSIVE SeqsOf(_, _)
SeqsOf(S, n) ==
    IF n = 0 THEN {<<>>}
    ELSE {Append(s, m) : s \in SeqsOf(S, n - 1), m \in S}

\* inbound buffers of two messages that ask for a reply or for nothing
ReplyBatches ==
    {<<SyncStep1({}), Auth(Some("denied"))>>,
     <<AwarenessQuery, SyncStep2(Blob("V1", Items))>>,
     <<Custom(9), AwarenessQuery>>}

Batches ==
    {<<>>} \cup {<<m>> : m \in Messages}
           \cup UNION {SeqsOf(BatchMessages, n) : n \in 2..MaxBatch}
           \cup ReplyBatches

\* What a peer that speaks V1 sends to a V2 room: the V2 header is not there.
WrongFormatBuffers(settings, room) ==
    IF settings.protocol_version = "V2"
    THEN {[enc |-> "V1",
           prefix |-> IF settings.name_prefix THEN Some(room) ELSE None,
           msgs |-> <<Update(Blob("V1", Items))>>]}
    ELSE {}

\* What a peer that speaks the room's configured framing sends, the empty
\* buffer, and a buffer in the other format.
InboundBuffers(room) ==
    LET settings == IF rooms[room] # None THEN rooms[room][1].settings
                    ELSE find_settings(room_settings, default_settings, room)
    IN  {[enc |-> settings.protocol_version,
          prefix |-> IF settings.name_prefix THEN Some(room) ELSE None,
          msgs |-> b] : b \in Batches} \cup {ZeroBytes}
            \cup WrongFormatBuffers(settings, room)

SnapshotBlobs == {Blob("V1", Items), Blob("V2", Items), Blob("bad", {})}

\* the blob the caller got from serialize_room of this room, if it holds one
HeldSnapshot(room) ==
    IF snapshot # None /\ snapshot[1].room = room THEN {snapshot[1].blob} ELSE {}

(***************************************************************************)
(* Actions: one per public method of YRoomManager                          *)
(***************************************************************************)
Connect(room, conn_id) ==
    LET res == YRoom_connect(get_room(room)[room][1], conn_id)
    IN  /\ rooms' = [rooms EXCEPT ![room] = Some(res.room)]
        /\ call' = Call("connect", room, conn_id, None)
        /\ client_ids' = None
        /\ invoked' = {}
        /\ snapshot' = None
        /\ ret' = res.ret
        /\ UNCHANGED <<default_settings, room_settings>>

ConnectWithData(room, conn_id, data) ==
    LET res == YRoom_connect(get_room_with_data(room, data)[room][1], conn_id)
    IN  /\ rooms' = [rooms EXCEPT ![room] = Some(res.room)]
        /\ call' = Call("connect_with_data", room, conn_id, data)
        /\ client_ids' = None
        /\ invoked' = {}
        /\ snapshot' = None
        /\ ret' = res.ret
        /\ UNCHANGED <<default_settings, room_settings>>

HandleMessage(room, conn_id, payload) ==
    LET res == YRoom_handle_message(get_room(room)[room][1], conn_id, payload)
    IN  /\ rooms' = [rooms EXCEPT ![room] = Some(res.room)]
        /\ call' = Call("handle_message", room, conn_id, payload)
        /\ client_ids' = None
        /\ invoked' = res.invoked
        /\ snapshot' = None
        /\ ret' = res.ret
        /\ UNCHANGED <<default_settings, room_settings>>

Disconnect(room, conn_id) ==
    LET res == YRoom_disconnect(get_room(room)[room][1], conn_id)
    IN  /\ rooms' = [rooms EXCEPT ![room] = Some(res.room)]
        /\ call' = Call("disconnect", room, conn_id, None)
        /\ client_ids' = get_room(room)[room][1].connections[conn_id]
        /\ invoked' = res.invoked
        /\ snapshot' = None
        /\ ret' = YRoomMessage(ZeroBytes, res.ret)
        /\ UNCHANGED <<default_settings, room_settings>>

HasRoom(room) ==
    /\ call' = Call("has_room", room, 0, None)
    /\ client_ids' = None
    /\ invoked' = {}
    /\ snapshot' = None
    /\ ret' = (rooms[room] # None)
    /\ UNCHANGED <<rooms, default_settings, room_settings>>

IsRoomAlive(room) ==
    /\ call' = Call("is_room_alive", room, 0, None)
    /\ client_ids' = None
    /\ invoked' = {}
    /\ snapshot' = None
    /\ ret' = is_room_alive(room)
    /\ UNCHANGED <<rooms, default_settings, room_settings>>

SerializeRoom(room) ==
    /\ call' = Call("serialize_room", room, 0, None)
    /\ client_ids' = None
    /\ invoked' = {}
    /\ snapshot' = IF rooms[room] = None THEN None
                   ELSE Some([room |-> room, blob |-> YRoom_serialize(rooms[room][1]),
                              doc |-> rooms[room][1].awareness.doc])
    /\ ret' = serialize_room(room)
    /\ UNCHANGED <<rooms, default_settings, room_settings>>

RemoveRoom(room) ==
    /\ rooms' = [rooms EXCEPT ![room] = None]
    /\ call' = Call("remove_room", room, 0, None)
    /\ client_ids' = None
    /\ invoked' = {}
    /\ snapshot' = IF snapshot # None /\ snapshot[1].room = room THEN snapshot ELSE None
    /\ ret' = None
    /\ UNCHANGED <<default_settings, room_settings>>

Export(room) ==
    /\ call' = Call("export", room, 0, None)
    /\ client_ids' = None
    /\ invoked' = {}
    /\ snapshot' = None
    /\ ret' = export(room)
    /\ UNCHANGED <<rooms, default_settings, room_settings>>

ListRooms ==
    /\ call' = Call("list_rooms", <<>>, 0, None)
    /\ client_ids' = None
    /\ invoked' = {}
    /\ snapshot' = None
    /\ ret' = list_rooms
    /\ UNCHANGED <<rooms, default_settings, room_settings>>

(***************************************************************************)
(* Specification: one room name, every settings combination as the         *)
(* manager's default, the full message traffic.                            *)
(***************************************************************************)
Init ==
    /\ rooms = [r \in ManagerRoomNames |-> None]
    /\ default_settings \in DefaultSettings
    /\ room_settings = <<>>
    /\ call = Call("new", <<>>, 0, None)
    /\ ret = None
    /\ client_ids = None
    /\ snapshot = None
    /\ invoked = {}

Next ==
    \/ \E room \in RoomNames, conn_id \in ConnIds : Connect(room, conn_id)
    \/ \E room \in RoomNames, conn_id \in ConnIds :
          \E data \in SnapshotBlobs \cup HeldSnapshot(room) :
              ConnectWithData(room, conn_id, data)
    \/ \E room \in RoomNames, conn_id \in ConnIds :
          \E payload \in InboundBuffers(room) : HandleMessage(room, conn_id, payload)
    \/ \E room \in RoomNames, conn_id \in ConnIds : Disconnect(room, conn_id)
    \/ \E room \in RoomNames : HasRoom(room)
    \/ \E room \in RoomNames : IsRoomAlive(room)
    \/ \E room \in RoomNames : SerializeRoom(room)
    \/ \E room \in RoomNames : RemoveRoom(room)
    \/ \E room \in RoomNames : Export(room)
    \/ ListRooms

Spec == Init /\ [][Next]_vars

(***************************************************************************)
(* Specification of the registry: two room names,   every ordered list of  *)
(* up to MaxPrefixes configured prefixes, one connection and the traffic    *)
(* that creates, fills and empties rooms.                                  *)
(***************************************************************************)
Prefixes == {<<>>, <<"d">>, <<"d", "o">>}

ManagerSettings == {YRoomSettings_default, YRoomSettings("V2", FALSE, TRUE)}

\* new_with_settings: the entries of the settings dict other than "default",
\* in the dict's order; a dict holds a key once.
PrefixLists ==
    {list \in UNION {SeqsOf(Prefixes \X ManagerSettings, n) : n \in 0..MaxPrefixes} :
        \A i, j \in 1..Len(list) : i # j => list[i][1] # list[j][1]}

ManagerConnIds == {1}

ManagerBuffers(room) ==
    LET settings == IF rooms[room] # None THEN rooms[room][1].settings
                    ELSE find_settings(room_settings, default_settings, room)
    IN  {[enc |-> settings.protocol_version, prefix |-> None,
          msgs |-> <<SyncStep1({})>>]}

InitManager ==
    /\ rooms = [r \in ManagerRoomNames |-> None]
    /\ default_settings \in ManagerSettings
    /\ room_settings \in PrefixLists
    /\ call = Call("new", <<>>, 0, None)
    /\ ret = None
    /\ client_ids = None
    /\ snapshot = None
    /\ invoked = {}

NextManager ==
    \/ \E room \in ManagerRoomNames, conn_id \in ManagerConnIds : Connect(room, conn_id)
    \/ \E room \in ManagerRoomNames, conn_id \in ManagerConnIds :
          \E data \in {Blob("V1", Items)} \cup HeldSnapshot(room) :
              ConnectWithData(room, conn_id, data)
    \/ \E room \in ManagerRoomNames, conn_id \in ManagerConnIds :
          \E payload \in ManagerBuffers(room) : HandleMessage(room, conn_id, payload)
    \/ \E room \in ManagerRoomNames, conn_id \in ManagerConnIds : Disconnect(room, conn_id)
    \/ \E room \in ManagerRoomNames : HasRoom(room)
    \/ \E room \in ManagerRoomNames : IsRoomAlive(room)
    \/ \E room \in ManagerRoomNames : SerializeRoom(room)
    \/ \E room \in ManagerRoomNames : RemoveRoom(room)
    \/ \E room \in ManagerRoomNames : Export(room)
    \/ ListRooms

SpecManager == InitManager /\ [][NextManager]_vars

(***************************************************************************)
(* Properties                                                              *)
(***************************************************************************)
Owned(room, c) == IF room.connections[c] = None THEN {} ELSE room.connections[c][1]

\* the room a call addressed to name r works on: the registered one, or the
\* one created for it
PreRoom(r) == get_room(r)[r][1]

\* the full presence diff of a store, entry by entry
FullPresence(aw) ==
    [k \in ClientIds |->
        IF aw.states[k] # None
        THEN Some([clock |-> aw.meta[k][1], json |-> aw.states[k][1]])
        ELSE None]

\* the buffer cannot be read up to its first message with these settings:
\* the V2 header is missing, or the name is missing
FramingFails(settings, buf) ==
    \/ settings.protocol_version = "V2" /\ buf.enc # "V2"
    \/ settings.name_prefix /\ buf.prefix = None

IsAwareness(m) == m.kind = "Awareness"
IsUpdate(m) == m.kind = "Update"
AppliedUpdate(m) == m.kind = "Update" /\ Update_decode_v1(m.val) # None

\* C1: in every reachable state, each presence client id is in the owned set
\* of at most one connection of its room.
C1_SingleWriter ==
    \A r \in DOMAIN rooms :
        rooms[r] # None =>
            \A k \in ClientIds :
                Cardinality({c \in ConnIds : k \in Owned(rooms[r][1], c)}) <= 1

\* C1 witness: a connection has just sent a presence diff about a client id
\* that another connection owns.
C1_Witness ==
    /\ call.op = "handle_message"
    /\ rooms[call.room] # None
    /\ \E c \in ConnIds, k \in ClientIds :
          /\ c # call.conn_id
          /\ k \in Owned(rooms[call.room][1], c)
          /\ rooms[call.room][1].connections[call.conn_id] # None
          /\ \E i \in 1..Len(call.data.msgs) :
                /\ IsAwareness(call.data.msgs[i])
                /\ call.data.msgs[i].val[k] # None

\* C2: a disconnect(c) step leaves no table entry for c and none of the client
\* ids c owned before the call in the presence store; and no step of a room
\* removes a connection's entry while leaving one of its client ids present.
C2_DisconnectCleansUp ==
    [][/\ call'.op = "disconnect" =>
             LET pre == PreRoom(call'.room)
                 post == rooms'[call'.room]
             IN  /\ post # None
                 /\ post[1].connections[call'.conn_id] = None
                 /\ \A k \in Owned(pre, call'.conn_id) :
                       post[1].awareness.states[k] = None
       /\ \A r \in DOMAIN rooms, c \in ConnIds :
             (/\ rooms[r] # None
              /\ rooms'[r] # None
              /\ rooms[r][1].connections[c] # None
              /\ rooms'[r][1].connections[c] = None)
                 => \A k \in Owned(rooms[r][1], c) :
                       rooms'[r][1].awareness.states[k] = None
      ]_vars

\* C2 witness: a connection that owned a client id has just disconnected while
\* another connection stays registered.
C2_Witness ==
    /\ call.op = "disconnect"
    /\ client_ids # None
    /\ client_ids[1] # {}
    /\ \E c \in ConnIds : rooms[call.room][1].connections[c] # None

\* C3 (as claimed): disconnect returns an empty private payload and a broadcast
\* payload of one Awareness message whose entries are exactly the client ids
\* the connection owned, each marked removed.
C3_BroadcastReflectsRemovals ==
    call.op = "disconnect" =>
        /\ ret.payload = ZeroBytes
        /\ Len(ret.broadcast_payload.msgs) = 1
        /\ IsAwareness(ret.broadcast_payload.msgs[1])
        /\ LET update == ret.broadcast_payload.msgs[1].val
               owned == IF client_ids = None THEN {} ELSE client_ids[1]
           IN  /\ {k \in ClientIds : update[k] # None} = owned
               /\ \A k \in owned : update[k][1].json = NULL_STR

\* C4 (as claimed): in every reachable state, every client id present in the
\* presence store of a room is in the owned set of some connection of the room.
C4_PresenceIsOwned ==
    \A r \in DOMAIN rooms :
        rooms[r] # None =>
            \A k \in clients(rooms[r][1].awareness) :
                \E c \in ConnIds : k \in Owned(rooms[r][1], c)

\* C5: a handleMessage step of connection c with one Awareness(diff) leaves a
\* table entry for c, with every client id the apply reports as added in it and
\* none it reports as removed, leaves every other connection's entry as it
\* was, and broadcasts one Awareness message holding the full presence diff of
\* the store after the apply; a client id the store had never seen ends up
\* owned by c.
C5_AwarenessOwnership ==
    [][(/\ call'.op = "handle_message"
        /\ Len(call'.data.msgs) = 1
        /\ IsAwareness(call'.data.msgs[1])) =>
          LET c == call'.conn_id
              pre == PreRoom(call'.room)
              post == rooms'[call'.room][1]
              diff == call'.data.msgs[1].val
              ev == Awareness_apply_update(
                        [pre.awareness EXCEPT !.on_update = TRUE], diff)
          IN  /\ post.connections[c] # None
              /\ ev.added \subseteq Owned(post, c)
              /\ ev.removed \cap Owned(post, c) = {}
              /\ \A d \in ConnIds \ {c} : post.connections[d] = pre.connections[d]
              /\ post.awareness.states = ev.awareness.states
              /\ ret'.broadcast_payload.msgs = <<Awareness(FullPresence(post.awareness))>>
              /\ \A k \in ClientIds :
                    (pre.awareness.meta[k] = None /\ diff[k] # None)
                        => k \in Owned(post, c)
      ]_vars

\* C5 witness: a connection has introduced a new client id and owns it, while
\* the other connection is registered.
C5_Witness ==
    /\ call.op = "handle_message"
    /\ Len(call.data.msgs) = 1
    /\ IsAwareness(call.data.msgs[1])
    /\ \E k \in ClientIds, d \in ConnIds \ {call.conn_id} :
          /\ call.data.msgs[1].val[k] = Some([clock |-> 1, json |-> "a"])
          /\ rooms[call.room][1].awareness.meta[k] = Some(1)
          /\ Owned(rooms[call.room][1], call.conn_id) = {k}
          /\ rooms[call.room][1].connections[d] = Some({})

\* C6: isRoomAlive(room) returns true exactly when the room is in the registry
\* and some connection id has an entry in its connection table.
C6_IsRoomAlive ==
    call.op = "is_room_alive" =>
        ret = (/\ rooms[call.room] # None
               /\ \E c \in ConnIds : rooms[call.room][1].connections[c] # None)

\* C6 witness: isRoomAlive has returned false for a room that exists.
C6_Witness ==
    /\ call.op = "is_room_alive"
    /\ rooms[call.room] # None
    /\ ret = FALSE

\* C7: after handleMessage of a buffer whose framing is read, the broadcast
\* payload holds one Update per inbound Update that decoded, with the same
\* bytes and in the inbound order; the document includes each of them; the
\* private payload holds no message for them, and a buffer of one such Update
\* yields zero private bytes.
C7_UpdateEcho ==
    (/\ call.op = "handle_message"
     /\ call.data.msgs # <<>>
     /\ ~FramingFails(rooms[call.room][1].settings, call.data)) =>
        LET room == rooms[call.room][1]
            ins == call.data.msgs
        IN  /\ SelectSeq(ret.broadcast_payload.msgs, IsUpdate)
                  = SelectSeq(ins, AppliedUpdate)
            /\ \A i \in 1..Len(ins) :
                  AppliedUpdate(ins[i]) => ins[i].val.items \subseteq room.awareness.doc
            /\ SelectSeq(ret.payload.msgs, IsUpdate) = <<>>
            /\ (Len(ins) = 1 /\ AppliedUpdate(ins[1])) =>
                  /\ ret.payload = ZeroBytes
                  /\ ret.broadcast_payload.msgs = ins

\* C7 witness: a buffer of two different Updates has been applied and echoed.
C7_Witness ==
    /\ call.op = "handle_message"
    /\ call.data.msgs = <<Update(Blob("V1", Items)), Update(Blob("V1", {}))>>
    /\ ret.broadcast_payload.msgs = call.data.msgs
    /\ rooms[call.room][1].awareness.doc = Items

\* C8: a handleMessage step with one SyncStep1(sv) returns a private payload of
\* exactly one SyncStep2 whose diff holds the items of the room's document that
\* sv does not cover, returns zero broadcast bytes and leaves the document
\* unchanged.
C8_SyncStep1Reply ==
    [][(/\ call'.op = "handle_message"
        /\ Len(call'.data.msgs) = 1
        /\ call'.data.msgs[1].kind = "SyncStep1") =>
          LET pre == PreRoom(call'.room)
              post == rooms'[call'.room][1]
              sv == call'.data.msgs[1].val
          IN  /\ Len(ret'.payload.msgs) = 1
              /\ ret'.payload.msgs[1].kind = "SyncStep2"
              /\ ret'.payload.msgs[1].val.items = pre.awareness.doc \ sv
              /\ ret'.broadcast_payload = ZeroBytes
              /\ post.awareness.doc = pre.awareness.doc
      ]_vars

\* C8 witness: SyncStep1 with the empty state vector has been answered with the
\* whole of a non-empty document.
C8_Witness ==
    /\ call.op = "handle_message"
    /\ call.data.msgs = <<SyncStep1({})>>
    /\ rooms[call.room][1].awareness.doc # {}
    /\ Len(ret.payload.msgs) = 1
    /\ ret.payload.msgs[1].val.items = rooms[call.room][1].awareness.doc

\* C9: after connect(c) the table has an entry for c and the broadcast payload
\* is zero bytes; with server_start_sync the private payload is SyncStep1 with
\* the document's state vector, followed by the full presence diff exactly when
\* the presence store is non-empty; without it the private payload is zero
\* bytes.
C9_Connect ==
    call.op = "connect" =>
        LET room == rooms[call.room][1]
            aw == room.awareness
        IN  /\ room.connections[call.conn_id] # None
            /\ ret.broadcast_payload = ZeroBytes
            /\ room.settings.server_start_sync =>
                  ret.payload.msgs =
                      IF \E k \in ClientIds : aw.states[k] # None
                      THEN <<SyncStep1(aw.doc), Awareness(FullPresence(aw))>>
                      ELSE <<SyncStep1(aw.doc)>>
            /\ ~room.settings.server_start_sync => ret.payload = ZeroBytes

\* C9 witness: connect on a room with presence entries has returned SyncStep1
\* followed by the presence snapshot.
C9_Witness ==
    /\ call.op = "connect"
    /\ Len(ret.payload.msgs) = 2
    /\ ret.payload.msgs[1].kind = "SyncStep1"
    /\ ret.payload.msgs[2].kind = "Awareness"

\* p is a literal prefix of the room name
IsPrefix(p, room) ==
    /\ Len(p) <= Len(room)
    /\ \A i \in 1..Len(p) : p[i] = room[i]

\* C10: every room of the registry has the settings of the first entry of the
\* prefix list, in the order supplied, whose prefix is a literal prefix of its
\* name, and the default settings when no entry matches.
C10_FirstMatch ==
    \A r \in DOMAIN rooms :
        rooms[r] # None =>
            LET matching == {i \in 1..Len(room_settings) :
                                IsPrefix(room_settings[i][1], r)}
            IN  /\ matching = {} => rooms[r][1].settings = default_settings
                /\ \A i \in matching :
                      (\A j \in matching : i <= j)
                          => rooms[r][1].settings = room_settings[i][2]

\* C10 witness: a room exists whose name two entries match, the second with the
\* longer prefix and other settings, and the room has the settings of the first.
C10_Witness ==
    \E r \in DOMAIN rooms :
        /\ rooms[r] # None
        /\ Len(room_settings) = 2
        /\ IsPrefix(room_settings[1][1], r)
        /\ IsPrefix(room_settings[2][1], r)
        /\ Len(room_settings[1][1]) < Len(room_settings[2][1])
        /\ room_settings[1][2] # room_settings[2][2]
        /\ rooms[r][1].settings = room_settings[1][2]

\* the connection table of a room with no connection
NoConnections == [c \in ConnIds |-> None]

\* C11: a room of the registry stays in it, with its settings, its document
\* and its presence store, over every step other than removeRoom of its name
\* (the document only grows, and only by handleMessage; presence changes only
\* by handleMessage and disconnect); hasRoom returns whether the name is in the
\* registry; removeRoom takes the name out; and connect on a name that is not
\* in the registry yields a room with an empty document, an empty presence
\* store and a connection table holding only the new connection.
C11_RoomLifetime ==
    [][/\ \A r \in DOMAIN rooms :
             (rooms[r] # None /\ ~(call'.op = "remove_room" /\ call'.room = r)) =>
                 /\ rooms'[r] # None
                 /\ rooms'[r][1].settings = rooms[r][1].settings
                 /\ rooms[r][1].awareness.doc \subseteq rooms'[r][1].awareness.doc
                 /\ \A k \in ClientIds :
                       rooms[r][1].awareness.meta[k] # None
                           => rooms'[r][1].awareness.meta[k] # None
                 /\ ~(call'.op = "handle_message" /\ call'.room = r) =>
                       rooms'[r][1].awareness.doc = rooms[r][1].awareness.doc
                 /\ ~(call'.op \in {"handle_message", "disconnect"} /\ call'.room = r) =>
                       rooms'[r][1].awareness = rooms[r][1].awareness
       /\ call'.op = "has_room" => ret' = (rooms[call'.room] # None)
       /\ call'.op = "remove_room" => rooms'[call'.room] = None
       /\ (call'.op = "connect" /\ rooms[call'.room] = None) =>
             /\ rooms'[call'.room] # None
             /\ rooms'[call'.room][1].awareness = Awareness_default
             /\ rooms'[call'.room][1].connections =
                   [NoConnections EXCEPT ![call'.conn_id] = Some({})]
      ]_vars

\* C11 witness: the last connection of a room has just disconnected and the
\* room is still registered with a non-empty document.
C11_Witness ==
    /\ call.op = "disconnect"
    /\ client_ids # None
    /\ rooms[call.room] # None
    /\ rooms[call.room][1].connections = NoConnections
    /\ rooms[call.room][1].awareness.doc # {}

\* C12: a handleMessage step whose buffer fails at the format header or at the
\* name prefix returns zero bytes as private and as broadcast payload and
\* leaves the room (document, presence store, connection table) as it was.
C12_FramingError ==
    [][(/\ call'.op = "handle_message"
        /\ FramingFails(PreRoom(call'.room).settings, call'.data)) =>
          /\ ret' = YRoomMessage(ZeroBytes, ZeroBytes)
          /\ rooms'[call'.room] = Some(PreRoom(call'.room))
      ]_vars

\* C12 witness: a buffer holding an Update in the other format has been
\* rejected by a room that has a connection and an empty document.
C12_Witness ==
    /\ call.op = "handle_message"
    /\ call.data.msgs = <<Update(Blob("V1", Items))>>
    /\ FramingFails(rooms[call.room][1].settings, call.data)
    /\ ret = YRoomMessage(ZeroBytes, ZeroBytes)
    /\ rooms[call.room][1].awareness.doc = {}
    /\ rooms[call.room][1].connections # NoConnections

\* a message of a batch that is in error: one the reader fails to decode, an
\* Update or SyncStep2 whose diff decodes in neither format, or an Awareness
\* diff with entries none of which the presence store applies
FailsToApply(st, m) ==
    \/ m.kind = "Err"
    \/ /\ m.kind \in {"Update", "SyncStep2"}
       /\ Update_decode_v1(m.val) = None
       /\ Update_decode_v2(m.val) = None
    \/ /\ m.kind = "Awareness"
       /\ \E k \in ClientIds : m.val[k] # None
       /\ Awareness_apply_update(st.room.awareness, m.val).awareness
             = st.room.awareness

\* the batch without its messages in error; st is the state message i meets
RECURSIVE WithoutFailing(_, _, _, _)
WithoutFailing(st, conn_id, messages, i) ==
    IF i > Len(messages) THEN <<>>
    ELSE (IF FailsToApply(st, messages[i]) THEN <<>> ELSE <<messages[i]>>)
            \o WithoutFailing(dispatch(st, conn_id, messages[i]),
                               conn_id, messages, i + 1)

C14_WireFormatExclusive ==
    [][/\ (/\ call'.op = "handle_message"
           /\ ~FramingFails(PreRoom(call'.room).settings, call'.data)
           /\ Len(call'.data.msgs) = 1
           /\ call'.data.msgs[1].kind \in {"Update", "SyncStep2"}) =>
             LET pre == PreRoom(call'.room)
                 data == call'.data.msgs[1].val
             IN  rooms'[call'.room][1].awareness.doc =
                     IF data.enc = pre.settings.protocol_version
                     THEN pre.awareness.doc \cup data.items
                     ELSE pre.awareness.doc
       /\ (/\ call'.op = "handle_message"
           /\ ~FramingFails(PreRoom(call'.room).settings, call'.data)
           /\ Len(call'.data.msgs) = 1
           /\ call'.data.msgs[1].kind = "SyncStep1") =>
             /\ Len(ret'.payload.msgs) = 1
             /\ ret'.payload.msgs[1].val.enc
                   = PreRoom(call'.room).settings.protocol_version
       /\ (call'.op = "connect_with_data" /\ rooms[call'.room] = None) =>
             rooms'[call'.room][1].awareness.doc =
                 IF call'.data.enc = rooms'[call'.room][1].settings.protocol_version
                 THEN call'.data.items
                 ELSE {}
       /\ (call'.op = "serialize_room" /\ rooms[call'.room] # None) =>
             ret'[1].enc = rooms[call'.room][1].settings.protocol_version
      ]_vars

\* a buffer a peer with these settings reads correctly: empty, or led by the
\* room name exactly when the settings ask for the name prefix
FramedFor(settings, room, buf) ==
    buf.msgs # <<>> =>
        buf.prefix = IF settings.name_prefix THEN Some(room) ELSE None

\* C15 (as claimed): the private payload and the broadcast payload returned by
\* connect, handleMessage and disconnect are, when not empty, led by the room
\* name in a room with the name prefix set and not led by it in a room
\* without.
C15_NamePrefixFraming ==
    call.op \in {"connect", "connect_with_data", "handle_message", "disconnect"} =>
        LET settings == rooms[call.room][1].settings
        IN  /\ FramedFor(settings, call.room, ret.payload)
            /\ FramedFor(settings, call.room, ret.broadcast_payload)

\* C16: encoding the empty message list gives zero bytes in both formats, with
\* and without a name; and a payload returned by connect, handleMessage or
\* disconnect that holds no message is zero bytes, with no format header and
\* no name.
C16_EmptyIsZeroBytes ==
    /\ \A v \in {"V1", "V2"}, prefix \in {None} \cup {Some(r) : r \in RoomNames} :
          EncoderWrapper_to_vec(v, <<>>, prefix) = ZeroBytes
    /\ call.op \in {"connect", "connect_with_data", "handle_message", "disconnect"} =>
          /\ ret.payload.msgs = <<>> => ret.payload = ZeroBytes
          /\ ret.broadcast_payload.msgs = <<>> => ret.broadcast_payload = ZeroBytes

\* C16 witness: a V2 room with the name prefix has answered a buffer that
\* carried its name with a reply and with zero broadcast bytes.
C16_Witness ==
    /\ call.op = "handle_message"
    /\ rooms[call.room][1].settings.protocol_version = "V2"
    /\ rooms[call.room][1].settings.name_prefix
    /\ call.data.prefix = Some(call.room)
    /\ ret.payload.msgs # <<>>
    /\ ret.payload.prefix = Some(call.room)
    /\ ret.broadcast_payload = ZeroBytes

\* the blob is a snapshot written in the format of these settings
DecodesFor(settings, blob) == blob.enc = settings.protocol_version

\* C17 (as claimed): a connectWithData step on a room of the registry leaves
\* its document as it was; on a name not in the registry it creates the room,
\* with the blob's state as document when the blob is a snapshot in the
\* room's format and with the empty document when the blob is not decodable;
\* in every case the connection has a table entry and the step returns what
\* connect returns.
C17_ConnectWithDataSeeds ==
    [][call'.op = "connect_with_data" =>
          LET post == rooms'[call'.room]
              blob == call'.data
          IN  /\ post # None
              /\ post[1].connections[call'.conn_id] # None
              /\ ret' = YRoom_connect(post[1], call'.conn_id).ret
              /\ rooms[call'.room] # None =>
                    post[1].awareness.doc = rooms[call'.room][1].awareness.doc
              /\ (rooms[call'.room] = None /\ DecodesFor(post[1].settings, blob)) =>
                    post[1].awareness.doc = blob.items
              /\ (rooms[call'.room] = None /\ blob.enc = "bad") =>
                    post[1].awareness.doc = {}
      ]_vars

ReplyOnlyKinds == {"SyncStep1", "SyncStep2", "AwarenessQuery", "Auth", "Custom"}

\* a reply with the diff of a SyncStep2 left open
ReplyShape(m) == IF m.kind = "SyncStep2" THEN SyncStep2(None) ELSE m

\* the replies the messages from the i-th on ask for, in order
RECURSIVE ReplyOnlyReplies(_, _, _)
ReplyOnlyReplies(aw, messages, i) ==
    IF i > Len(messages) THEN <<>>
    ELSE (CASE messages[i].kind = "SyncStep1" -> <<SyncStep2(None)>>
            [] messages[i].kind = "Auth" -> <<Auth(None)>>
            [] messages[i].kind = "AwarenessQuery" -> <<Awareness(FullPresence(aw))>>
            [] OTHER -> <<>>)
            \o ReplyOnlyReplies(aw, messages, i + 1)

\* C18: a handleMessage step whose batch holds only SyncStep1, SyncStep2,
\* AwarenessQuery, Auth and Custom messages returns zero broadcast bytes and
\* leaves the presence store and the connection table as they were; the
\* document changes only when the batch holds a SyncStep2; the private payload
\* holds, in order, one SyncStep2 per SyncStep1, Auth(None) per Auth and the
\* full presence diff per AwarenessQuery, and nothing for SyncStep2 and Custom.
C18_ReplyOnlyKinds ==
    [][(/\ call'.op = "handle_message"
        /\ ~FramingFails(PreRoom(call'.room).settings, call'.data)
        /\ call'.data.msgs # <<>>
        /\ \A i \in 1..Len(call'.data.msgs) :
              call'.data.msgs[i].kind \in ReplyOnlyKinds) =>
          LET pre == PreRoom(call'.room)
              post == rooms'[call'.room][1]
              ins == call'.data.msgs
              out == ret'.payload.msgs
          IN  /\ ret'.broadcast_payload = ZeroBytes
              /\ post.awareness.states = pre.awareness.states
              /\ post.awareness.meta = pre.awareness.meta
              /\ post.connections = pre.connections
              /\ (\A i \in 1..Len(ins) : ins[i].kind # "SyncStep2") =>
                    post.awareness.doc = pre.awareness.doc
              /\ [i \in 1..Len(out) |-> ReplyShape(out[i])]
                    = ReplyOnlyReplies(pre.awareness, ins, 1)
      ]_vars

\* C18 witness: a connection without a table entry has sent AwarenessQuery and
\* a SyncStep2 in one buffer to a room with presence; it got the presence
\* diff, the document took the SyncStep2, and the connection has no entry.
C18_Witness ==
    /\ call.op = "handle_message"
    /\ Len(call.data.msgs) = 2
    /\ call.data.msgs[1].kind = "AwarenessQuery"
    /\ call.data.msgs[2].kind = "SyncStep2"
    /\ rooms[call.room][1].connections[call.conn_id] = None
    /\ clients(rooms[call.room][1].awareness) # {}
    /\ rooms[call.room][1].awareness.doc = Items
    /\ ret.payload.msgs = <<Awareness(FullPresence(rooms[call.room][1].awareness))>>
    /\ ret.broadcast_payload = ZeroBytes

\* C19 (as claimed): a disconnect, hasRoom, isRoomAlive, serializeRoom,
\* listRooms or export step leaves the set of names listRooms returns as it
\* was; on a name not in the registry serializeRoom and export return the
\* absent value and isRoomAlive returns false; a removeRoom step takes the
\* named room, and only it, out of the registry.
C19_OnlyConnectAndHandleAdd ==
    [][/\ call'.op \in {"disconnect", "has_room", "is_room_alive",
                        "serialize_room", "list_rooms", "export"} =>
             list_rooms' = list_rooms
       /\ (call'.op \in {"serialize_room", "export"} /\ rooms[call'.room] = None) =>
             ret' = None
       /\ (call'.op = "is_room_alive" /\ rooms[call'.room] = None) =>
             ret' = FALSE
       /\ call'.op = "remove_room" =>
             /\ list_rooms' = list_rooms \ {call'.room}
             /\ \A r \in list_rooms' : rooms'[r] = rooms[r]
      ]_vars

\* C20 (as claimed): when serializeRoom(r) has returned a blob, removeRoom(r)
\* has followed and connectWithData(r, c, blob) is called with that blob, the
\* room it yields has the document that was serialized, for both formats and
\* every document.
C20_SnapshotRoundTrip ==
    [][(/\ call'.op = "connect_with_data"
        /\ call.op = "remove_room"
        /\ call.room = call'.room
        /\ snapshot # None
        /\ snapshot[1].room = call'.room
        /\ call'.data = snapshot[1].blob) =>
          rooms'[call'.room][1].awareness.doc = snapshot[1].doc
      ]_vars

\* C21: every invocation of a subscribed closure made by a handleMessage or
\* disconnect call happens while the caller does not hold the connection-table
\* lock and finds the table entry of the closure's connection id, so that no
\* call blocks or panics; and when a call has ended no closure is subscribed
\* to the presence store of any room.
C21_ReentrantObserver ==
    /\ \A i \in invoked : ~i.lock_held /\ i.has_entry
    /\ \A r \in DOMAIN rooms :
          rooms[r] # None => rooms[r][1].awareness.subs = {}

\* C21 witness: the Awareness diff of a handleMessage call has invoked the
\* closure of the sending connection, which took the lock and found its
\* entry, and the closure is no longer subscribed.
C21_Witness ==
    /\ call.op = "handle_message"
    /\ invoked = {Invocation(call.conn_id, FALSE, TRUE)}
    /\ rooms[call.room][1].awareness.on_update
    /\ rooms[call.room][1].awareness.subs = {}
    /\ Owned(rooms[call.room][1], call.conn_id) # {}

\* C22 (as claimed): in every reachable state, every client id in the owned
\* set of a connection of a room is present in the presence store of the room.
C22_NoStaleOwnership ==
    \A r \in DOMAIN rooms :
        rooms[r] # None =>
            \A c \in ConnIds :
                \A k \in Owned(rooms[r][1], c) :
                    rooms[r][1].awareness.states[k] # None

====
